---- MODULE Spec2Model ----
(***************************************************************************)
(* Model of the usage-telemetry aggregator of src/worker.js, class         *)
(* ContadorStats (lines 1-399): the in-memory stats object, the durable    *)
(* document under the key "stats", and the four request handlers.          *)
(*                                                                         *)
(* Representation.                                                         *)
(*  - A JavaScript Map is a sequence of entries [key, val] in insertion    *)
(*    order (Map.set on an existing key keeps its position, Map.delete     *)
(*    removes the entry).  A plain object produced by Object.fromEntries   *)
(*    is [obj |-> entries]; all keys used by the program ("user_..",       *)
(*    session ids such as "S_..", date strings, "y-m-d-h") are not integer *)
(*    indices, so an object enumerates them in insertion order.            *)
(*  - A Set is [type |-> "Set", items |-> seq without repetition], an      *)
(*    Array is [type |-> "Array", items |-> seq].                          *)
(*  - Time is the millisecond clock of Date.now().  The host freezes the   *)
(*    clock while a handler runs between two I/O completions, so every     *)
(*    Date read of one handler sees the same value.                        *)
(*  - Date.toDateString() of an instant is modelled by the tagged day      *)
(*    number <<"date", d>>, the hour key `y-m-d-h` by <<"hour", d, h>>,    *)
(*    toISOString() by <<"iso", ms>>: each is injective on what it keeps.  *)
(*  - The host delivers one request at a time to the object (input gate),  *)
(*    so a handler is one atomic action.                                   *)
(***************************************************************************)
EXTENDS Integers, Sequences, FiniteSets, TLC

VARIABLES
    stats,      \* this.stats of the instance
    storage,    \* the durable document stored under "stats", or Absent
    clock,      \* Date.now()
    last,       \* the last request handled and the response it produced
    saved,      \* history: the in-memory stats at entry to the last saveStats
    calls,      \* history: number of /increment requests handled
    passed,     \* history: the userId values passed to /increment
    ticks       \* history: number of clock steps taken

vars == <<stats, storage, clock, last, saved, calls, passed, ticks>>

-----------------------------------------------------------------------------
(* Bounds of the model *)

\* /increment requests handled, steps of the clock taken
MaxEvents == 2
MaxTicks == 2

-----------------------------------------------------------------------------
(* Values of the JavaScript runtime *)

Undefined == "undefined"
Absent == [absent |-> TRUE]
NoDoc == [none |-> TRUE]

MsPerHour == 60 * 60 * 1000
MsPerDay == 24 * MsPerHour

LIVENESS_WINDOW == 90000

DayOf(ms) == ms \div MsPerDay
HourOfDay(ms) == (ms % MsPerDay) \div MsPerHour

ToDateString(ms) == <<"date", DayOf(ms)>>
HourKeyOf(ms) == <<"hour", DayOf(ms), HourOfDay(ms)>>
ToISOString(ms) == <<"iso", ms>>
DefaultName(userId) == <<"User_", userId>>
UserKey(userId) == <<"user_", userId>>

\* a || b for the string-or-undefined values the handlers use it on
OrElse(a, b) == IF a = Undefined THEN b ELSE a

-----------------------------------------------------------------------------
(* Map, Set, Array and plain objects *)

Keys(m) == {m[i].key : i \in 1..Len(m)}
MapHas(m, k) == k \in Keys(m)
IndexOf(m, k) == CHOOSE i \in 1..Len(m) : m[i].key = k
MapGet(m, k) == m[IndexOf(m, k)].val
MapSet(m, k, v) ==
    IF MapHas(m, k)
    THEN [m EXCEPT ![IndexOf(m, k)] = [key |-> k, val |-> v]]
    ELSE Append(m, [key |-> k, val |-> v])

ObjectFromEntries(m) == [obj |-> m]
ObjectEntries(o) == o.obj
NewMap(entries) == entries

Items(c) == {c.items[i] : i \in 1..Len(c.items)}
NewSet(items) == [type |-> "Set", items |-> items]
SetAdd(s, x) == IF x \in Items(s) THEN s ELSE [s EXCEPT !.items = Append(@, x)]
ArrayFrom(s) == [type |-> "Array", items |-> s.items]
\* c.size: a Set has it, an Array has no such property
SizeOf(c) == IF c.type = "Set" THEN Len(c.items) ELSE Undefined
ArrayIncludes(a, x) == x \in Items(a)
ArrayPush(a, x) == [a EXCEPT !.items = Append(@, x)]

-----------------------------------------------------------------------------
(* The state a handler works on: the instance's stats, the durable         *)
(* document, and what the history variables record of the writes.          *)

Context(st, doc, sv) ==
    [stats |-> st, storage |-> doc, saved |-> sv, writes |-> 0, puts |-> <<>>]

\* worker.js:19-31, the zero state of a cold start with no document
ZeroStats(now) ==
    [total |-> 0, today |-> 0, online |-> 0,
     uniqueUsers |-> NewMap(<<>>), sessions |-> NewMap(<<>>),
     hourlyStats |-> NewMap(<<>>), dailyStats |-> NewMap(<<>>),
     peakOnline |-> 0, peakToday |-> 0,
     lastReset |-> ToDateString(now), requestsCount |-> 0]

\* worker.js:13-16: the four properties the constructor rebuilds as Maps
Collections == {"uniqueUsers", "sessions", "hourlyStats", "dailyStats"}

\* worker.js:7-33: the state a new instance builds from the stored document.
\* Every property of the document is kept (...saved, line 12); a collection
\* the document lacks becomes an empty Map (saved.x || {}, lines 13-16).
Constructor(doc, now) ==
    IF doc # Absent
    THEN [f \in DOMAIN doc \cup Collections |->
            IF f \in Collections
            THEN NewMap(IF f \in DOMAIN doc THEN ObjectEntries(doc[f]) ELSE <<>>)
            ELSE doc[f]]
    ELSE ZeroStats(now)

\* worker.js:378-383: a bucket's Set becomes an Array, in the bucket object
\* itself, which the instance's dailyStats Map still refers to
SetToArray(c) == IF c.type = "Set" THEN ArrayFrom(c) ELSE c

ConvertBuckets(daily) ==
    [i \in 1..Len(daily) |-> [daily[i] EXCEPT !.val.uniqueUsers = SetToArray(@)]]

\* worker.js:370-376: the document handed to storage.put
ToSave(st, daily) ==
    [st EXCEPT !.uniqueUsers = ObjectFromEntries(@),
               !.sessions = ObjectFromEntries(@),
               !.hourlyStats = ObjectFromEntries(@),
               !.dailyStats = ObjectFromEntries(daily)]

\* worker.js:367-398.  putOk: whether storage.put resolves; a rejected put is
\* caught (line 394) and leaves the document as it was.  saveStats runs up to
\* its put without waiting (there is no await before line 392), so the puts of
\* a handler are called in the order of its saveStats calls, awaited or not.
SaveStats(ctx, putOk) ==
    LET st == ctx.stats
        converted == ConvertBuckets(st.dailyStats)
    IN  [stats |-> [st EXCEPT !.dailyStats = converted],
         storage |-> IF putOk THEN ToSave(st, converted) ELSE ctx.storage,
         saved |-> IF putOk THEN st ELSE ctx.saved,
         writes |-> ctx.writes + 1,
         puts |-> IF putOk THEN Append(ctx.puts, ToSave(st, converted))
                  ELSE ctx.puts]

\* Settle that lets the put called first be applied last
SettleFirstLast(doc, puts) == IF puts = <<>> THEN doc ELSE puts[1]

\* worker.js:392: the puts of one handler on the key 'stats' are applied in
\* the order of their calls, each replacing the document
Settle(doc, puts) == IF puts = <<>> THEN doc ELSE puts[Len(puts)]

\* IsStale with the comparison made inclusive
IsStaleAtWindow(session, now) == now - session.lastHeartbeat >= LIVENESS_WINDOW

\* worker.js:276
IsStale(session, now) == now - session.lastHeartbeat > LIVENESS_WINDOW

LiveEntries(sessions, now) ==
    SelectSeq(sessions, LAMBDA e : ~IsStale(e.val, now))

\* worker.js:270-293
CleanupSessions(ctx, now, putOk) ==
    LET st == ctx.stats
        kept == LiveEntries(st.sessions, now)
        sessionsToDelete == Len(st.sessions) - Len(kept)
        c1 == [ctx EXCEPT !.stats = [st EXCEPT !.sessions = kept,
                                               !.online = Len(kept)]]
    IN  IF sessionsToDelete > 0 THEN SaveStats(c1, putOk) ELSE c1

\* DateChanged that finds every date new
DateAlwaysChanged(lastReset, today) == TRUE

\* worker.js:297
DateChanged(lastReset, today) == lastReset # today

\* CheckDailyReset that restarts the lifetime counter as well
CheckDailyResetAll(ctx, now, putOk) ==
    LET st == ctx.stats
        today == ToDateString(now)
    IN  IF DateChanged(st.lastReset, today)
        THEN SaveStats([ctx EXCEPT !.stats = [st EXCEPT !.total = 0,
                                                        !.today = 0,
                                                        !.peakToday = 0,
                                                        !.lastReset = today]],
                       putOk)
        ELSE ctx

\* worker.js:295-303
CheckDailyReset(ctx, now, putOk) ==
    LET st == ctx.stats
        today == ToDateString(now)
    IN  IF DateChanged(st.lastReset, today)
        THEN SaveStats([ctx EXCEPT !.stats = [st EXCEPT !.today = 0,
                                                        !.peakToday = 0,
                                                        !.lastReset = today]],
                       putOk)
        ELSE ctx

\* What a handler's pre-steps did: sessionsToDelete.length of line 290 and
\* whether the branch of line 297 was taken
Swept(before, after) == Len(before.stats.sessions) - Len(after.stats.sessions)
Rolled(before, after) == before.stats.lastReset # after.stats.lastReset

-----------------------------------------------------------------------------
(* /increment *)

\* RecordHour that starts the bucket again at every event
RecordHourAnew(hourly, now) ==
    MapSet(hourly, HourKeyOf(now),
           [hour |-> HourKeyOf(now), count |-> 1, timestamp |-> ToISOString(now)])

\* worker.js:110-121
RecordHour(hourly, now) ==
    LET hourKey == HourKeyOf(now)
    IN  IF ~MapHas(hourly, hourKey)
        THEN MapSet(hourly, hourKey,
                    [hour |-> hourKey, count |-> 1, timestamp |-> ToISOString(now)])
        ELSE MapSet(hourly, hourKey,
                    [MapGet(hourly, hourKey) EXCEPT !.count = @ + 1,
                                                    !.timestamp = ToISOString(now)])

\* CountDay that leaves the count of the bucket as it is
CountDayLost(daily, today) == daily

\* worker.js:131-132: the bucket exists, its count is incremented
CountDay(daily, today) ==
    MapSet(daily, today, [MapGet(daily, today) EXCEPT !.count = @ + 1])

\* worker.js:133: uniqueUsers.add is a function only while the bucket still
\* holds a Set
AddThrows(daily, today) ==
    MapHas(daily, today) /\ MapGet(daily, today).uniqueUsers.type # "Set"

\* worker.js:123-134, when line 133 does not throw
RecordDay(daily, today, userId) ==
    IF ~MapHas(daily, today)
    THEN MapSet(daily, today,
                [date |-> today, count |-> 1, uniqueUsers |-> NewSet(<<userId>>)])
    ELSE MapSet(daily, today,
                [MapGet(daily, today) EXCEPT !.count = @ + 1,
                                             !.uniqueUsers = SetAdd(@, userId)])

\* worker.js:136-153
UpsertUser(users, userId, playerName, sessionId, now) ==
    LET userKey == UserKey(userId)
    IN  IF ~MapHas(users, userKey)
        THEN MapSet(users, userKey,
                    [userId |-> userId,
                     playerName |-> OrElse(playerName, DefaultName(userId)),
                     firstSeen |-> ToISOString(now),
                     lastSeen |-> ToISOString(now),
                     totalExecutions |-> 1,
                     sessions |-> [type |-> "Array", items |-> <<sessionId>>]])
        ELSE MapSet(users, userKey,
                    [MapGet(users, userKey) EXCEPT
                        !.totalExecutions = @ + 1,
                        !.lastSeen = ToISOString(now),
                        !.sessions = IF ArrayIncludes(@, sessionId)
                                     THEN @ ELSE ArrayPush(@, sessionId)])

\* worker.js:157-164
EventSession(userId, playerName, gameId, now) ==
    [userId |-> userId,
     playerName |-> OrElse(playerName, DefaultName(userId)),
     lastHeartbeat |-> now, created |-> now,
     gameId |-> gameId, lastActivity |-> now]

\* RaisePeakOnline that leaves the high-water mark alone
RaisePeakOnlineNever(st) == st

\* worker.js:169-171 and 353-355
RaisePeakOnline(st) ==
    [st EXCEPT !.peakOnline = IF st.online > @ THEN st.online ELSE @]

\* UpsertSession that leaves online as the sweep computed it
UpsertSessionStaleOnline(st, sessionId, userId, playerName, gameId, now) ==
    IF sessionId # Undefined
    THEN [st EXCEPT !.sessions = MapSet(@, sessionId,
                                        EventSession(userId, playerName, gameId, now))]
    ELSE st

\* worker.js:155-172
UpsertSession(st, sessionId, userId, playerName, gameId, now) ==
    IF sessionId # Undefined
    THEN LET sessions == MapSet(st.sessions, sessionId,
                                EventSession(userId, playerName, gameId, now))
         IN  RaisePeakOnline([st EXCEPT !.sessions = sessions,
                                        !.online = Len(sessions)])
    ELSE st

\* CountEvent that never raises peakToday
CountEventWithoutPeak(st) ==
    [st EXCEPT !.total = @ + 1, !.today = @ + 1, !.requestsCount = @ + 1]

\* CountEvent with the increment of requestsCount left out
CountEventWithoutRequests(st) ==
    LET s1 == [st EXCEPT !.total = @ + 1, !.today = @ + 1]
    IN  [s1 EXCEPT !.peakToday = IF s1.today > @ THEN s1.today ELSE @]

\* CountEvent with the increment of today left out
CountEventWithoutToday(st) ==
    LET s1 == [st EXCEPT !.total = @ + 1, !.requestsCount = @ + 1]
    IN  [s1 EXCEPT !.peakToday = IF s1.today > @ THEN s1.today ELSE @]

\* worker.js:102-108
CountEvent(st) ==
    LET s1 == [st EXCEPT !.total = @ + 1, !.today = @ + 1,
                         !.requestsCount = @ + 1]
    IN  [s1 EXCEPT !.peakToday = IF s1.today > @ THEN s1.today ELSE @]

\* worker.js:176-186
EventBody(st, userId, now) ==
    [success |-> TRUE,
     stats |-> [total |-> st.total, today |-> st.today, online |-> st.online,
                unique |-> Len(st.uniqueUsers),
                yourTotal |-> IF MapHas(st.uniqueUsers, UserKey(userId))
                              THEN MapGet(st.uniqueUsers, UserKey(userId)).totalExecutions
                              ELSE 1],
     timestamp |-> ToISOString(now)]

\* worker.js:82-90: what fetch answers when the handler throws
ErrorBody(message) == [error |-> "Error interno", message |-> message]

\* worker.js:93-187.  The result holds the context the handler leaves, the
\* HTTP status fetch answers with, and the body.
IncrementCounters(ctx, now, userId, playerName, sessionId, gameId, putOk) ==
    LET c1 == CleanupSessions(ctx, now, putOk)
        c2 == CheckDailyReset(c1, now, putOk)
        today == ToDateString(now)
        s3 == CountEvent(c2.stats)
        s4 == [s3 EXCEPT !.hourlyStats = RecordHour(@, now)]
    IN  IF AddThrows(s4.dailyStats, today)
        THEN [ctx |-> [c2 EXCEPT !.stats =
                          [s4 EXCEPT !.dailyStats = CountDay(@, today)]],
              status |-> 500,
              body |-> ErrorBody("dayStat.uniqueUsers.add is not a function"),
              swept |-> Swept(ctx, c1), rolled |-> Rolled(c1, c2)]
        ELSE LET s5 == [s4 EXCEPT !.dailyStats = RecordDay(@, today, userId)]
                 s6 == [s5 EXCEPT !.uniqueUsers =
                           UpsertUser(@, userId, playerName, sessionId, now)]
                 s7 == UpsertSession(s6, sessionId, userId, playerName, gameId, now)
                 c8 == SaveStats([c2 EXCEPT !.stats = s7], putOk)
             IN  [ctx |-> c8, status |-> 200,
                  body |-> EventBody(c8.stats, userId, now),
                  swept |-> Swept(ctx, c1), rolled |-> Rolled(c1, c2)]

-----------------------------------------------------------------------------
(* /counter and /stats *)

\* worker.js:194-203
CounterBody(st, now) ==
    [total |-> st.total, today |-> st.today, online |-> st.online,
     unique |-> Len(st.uniqueUsers),
     peakOnline |-> st.peakOnline, peakToday |-> st.peakToday,
     lastUpdate |-> ToISOString(now),
     sessionsCount |-> Len(st.sessions)]

\* GetCounterStats that counts the request as an event
GetCounterStatsCounting(ctx, now, putOk) ==
    LET c1 == CleanupSessions(ctx, now, putOk)
        c2 == CheckDailyReset(c1, now, putOk)
        c3 == [c2 EXCEPT !.stats = CountEvent(@)]
    IN  [ctx |-> c3, status |-> 200, body |-> CounterBody(c3.stats, now),
         swept |-> Swept(ctx, c1), rolled |-> Rolled(c1, c2)]

\* worker.js:189-204
GetCounterStats(ctx, now, putOk) ==
    LET c1 == CleanupSessions(ctx, now, putOk)
        c2 == CheckDailyReset(c1, now, putOk)
    IN  [ctx |-> c2, status |-> 200, body |-> CounterBody(c2.stats, now),
         swept |-> Swept(ctx, c1), rolled |-> Rolled(c1, c2)]

HOURS_SHOWN == 12
DAYS_SHOWN == 7

\* worker.js:213-224: entry j of hourlyData is the hour (HOURS_SHOWN - j) hours
\* before now's hour
HourlyData(st, now) ==
    [j \in 1..HOURS_SHOWN |->
        LET t == now - (HOURS_SHOWN - j) * MsPerHour
            hourKey == HourKeyOf(t)
        IN  [hour |-> <<HourOfDay(t), ":00">>,
             count |-> IF MapHas(st.hourlyStats, hourKey)
                       THEN MapGet(st.hourlyStats, hourKey).count ELSE 0,
             date |-> hourKey]]

\* dayKey.substring(4, 10), "Dec 15": the month and the day of the month,
\* without the year (a calendar of 365-day years)
ShortDate(dayKey) == <<"MMM dd", dayKey[2] % 365>>

\* worker.js:227-239, as JSON.stringify (line 80) writes it: an entry whose
\* unique is undefined (the size of an Array) has no unique property
DailyData(st, now) ==
    [j \in 1..DAYS_SHOWN |->
        LET dayKey == ToDateString(now - (DAYS_SHOWN - j) * MsPerDay)
            entry == [date |-> ShortDate(dayKey),
                      count |-> IF MapHas(st.dailyStats, dayKey)
                                THEN MapGet(st.dailyStats, dayKey).count ELSE 0]
        IN  IF ~MapHas(st.dailyStats, dayKey)
            THEN [date |-> entry.date, count |-> entry.count, unique |-> 0]
            ELSE IF MapGet(st.dailyStats, dayKey).uniqueUsers.type = "Set"
            THEN [date |-> entry.date, count |-> entry.count,
                  unique |-> SizeOf(MapGet(st.dailyStats, dayKey).uniqueUsers)]
            ELSE entry]

\* worker.js:247-266
DetailedBody(st, now) ==
    [summary |-> [total |-> st.total, today |-> st.today, online |-> st.online,
                  unique |-> Len(st.uniqueUsers),
                  peakOnline |-> st.peakOnline, peakToday |-> st.peakToday,
                  requestsCount |-> st.requestsCount,
                  lastReset |-> st.lastReset,
                  activeSessions |-> Len(st.sessions)],
     hourly |-> HourlyData(st, now),
     daily |-> DailyData(st, now),
     currentHour |-> [count |-> IF MapHas(st.hourlyStats, HourKeyOf(now))
                                THEN MapGet(st.hourlyStats, HourKeyOf(now)).count
                                ELSE 0,
                      hour |-> HourKeyOf(now)],
     lastUpdate |-> ToISOString(now)]

\* worker.js:206-267
GetDetailedStats(ctx, now, putOk) ==
    LET c1 == CleanupSessions(ctx, now, putOk)
        c2 == CheckDailyReset(c1, now, putOk)
    IN  [ctx |-> c2, status |-> 200, body |-> DetailedBody(c2.stats, now),
         swept |-> Swept(ctx, c1), rolled |-> Rolled(c1, c2)]

-----------------------------------------------------------------------------
(* /heartbeat *)

\* Refresh that leaves the session as it is
RefreshNothing(session, now) == session

\* worker.js:318-319 and 334-335
Refresh(session, now) ==
    [session EXCEPT !.lastHeartbeat = now, !.lastActivity = now]

\* worker.js:343-349: a session created by a heartbeat has no gameId
HeartbeatSession(userId, now) ==
    [userId |-> userId, playerName |-> DefaultName(userId),
     lastHeartbeat |-> now, created |-> now,
     gameId |-> Undefined, lastActivity |-> now]

\* OwnedBy that compares the session id, not the owner, with the userId
OwnedByKey(sessions, userId) ==
    {i \in 1..Len(sessions) : sessions[i].key = userId}

\* worker.js:331-332: the positions of the user's sessions, in Map order
OwnedBy(sessions, userId) ==
    {i \in 1..Len(sessions) : sessions[i].val.userId = userId}

FirstOf(S) == CHOOSE i \in S : \A j \in S : i <= j

\* MissingId that tests the sessionId alone
MissingSessionId(sessionId, userId) == sessionId = Undefined

\* worker.js:307
MissingId(sessionId, userId) == sessionId = Undefined \/ userId = Undefined

\* UpdateHeartbeat that counts the heartbeat as an event
UpdateHeartbeatCounting(ctx, now, sessionId, userId, putOk) ==
    IF MissingId(sessionId, userId)
    THEN [ctx |-> ctx, status |-> 200,
          body |-> [success |-> FALSE, online |-> ctx.stats.online,
                    message |-> Undefined],
          swept |-> 0, rolled |-> FALSE]
    ELSE
    LET c1 == CleanupSessions(ctx, now, putOk)
        st == CountEvent(c1.stats)
        sessions == MapSet(st.sessions, sessionId,
                           IF MapHas(st.sessions, sessionId)
                           THEN Refresh(MapGet(st.sessions, sessionId), now)
                           ELSE HeartbeatSession(userId, now))
        s2 == RaisePeakOnline([st EXCEPT !.sessions = sessions,
                                         !.online = Len(sessions)])
        c3 == SaveStats([c1 EXCEPT !.stats = s2], putOk)
    IN  [ctx |-> c3, status |-> 200,
         body |-> [success |-> TRUE, online |-> c3.stats.online,
                   message |-> "Heartbeat actualizado"],
         swept |-> Swept(ctx, c1), rolled |-> FALSE]

\* worker.js:306-365
UpdateHeartbeat(ctx, now, sessionId, userId, putOk) ==
    IF MissingId(sessionId, userId)
    THEN [ctx |-> ctx, status |-> 200,
          body |-> [success |-> FALSE, online |-> ctx.stats.online,
                    message |-> Undefined],
          swept |-> 0, rolled |-> FALSE]
    ELSE
    LET c1 == CleanupSessions(ctx, now, putOk)
        st == c1.stats
        owned == OwnedBy(st.sessions, userId)
        s2 == IF MapHas(st.sessions, sessionId)
              THEN [st EXCEPT !.sessions =
                       MapSet(@, sessionId, Refresh(MapGet(@, sessionId), now))]
              ELSE IF owned # {}
              THEN [st EXCEPT !.sessions[FirstOf(owned)].val = Refresh(@, now)]
              ELSE LET sessions == MapSet(st.sessions, sessionId,
                                          HeartbeatSession(userId, now))
                   IN  RaisePeakOnline([st EXCEPT !.sessions = sessions,
                                                  !.online = Len(sessions)])
        c3 == SaveStats([c1 EXCEPT !.stats = s2], putOk)
        message == IF MapHas(st.sessions, sessionId) THEN "Heartbeat actualizado"
                   ELSE IF owned # {} THEN "Sesion del usuario actualizada"
                   ELSE "Nueva sesion creada"
    IN  [ctx |-> c3, status |-> 200,
         body |-> [success |-> TRUE, online |-> c3.stats.online,
                   message |-> message],
         swept |-> Swept(ctx, c1), rolled |-> FALSE]

-----------------------------------------------------------------------------
(* The instance and its requests *)

\* The instant of the cold start: the last millisecond of day 0, so that one
\* step of the clock crosses a date (and an hour) inside the liveness window.
StartClock == MsPerDay - 1

\* The steps the clock takes between two requests: a millisecond, the window
Steps == {1, LIVENESS_WINDOW}

\* The inputs of the requests.  A request may leave out any parameter
\* (Object.fromEntries(url.searchParams) then has no such property).
UserIds == {"U1", "U2"}
SessionOrder == <<"S1", "S2">>
SessionIds == {SessionOrder[i] : i \in 1..Len(SessionOrder)}
\* What each client sends along: U1 its playerName and gameId, U2 neither
Profile(userId) ==
    IF userId = "U1" THEN <<"Ann", "G1">> ELSE <<Undefined, Undefined>>
MissingPairs == {<<Undefined, "U1">>, <<"S1", Undefined>>}

\* The session ids a heartbeat names: one of the set, or one outside it.
\* updateHeartbeat reads an unknown id only in sessions.has and as the key of
\* the record it creates, so the ids outside the set are interchangeable and
\* the first of them stands for all.
KnownOrFresh(sessions) ==
    LET unused == {i \in 1..Len(SessionOrder) : ~MapHas(sessions, SessionOrder[i])}
    IN  Keys(sessions) \cup
        {SessionOrder[i] : i \in {k \in unused : \A m \in unused : k <= m}}

NoRequest ==
    [op |-> "none", userId |-> Undefined, sessionId |-> Undefined,
     at |-> StartClock, status |-> 0, body |-> [none |-> TRUE],
     swept |-> 0, rolled |-> FALSE, writes |-> 0]

Init ==
    /\ stats = Constructor(Absent, StartClock)
    /\ storage = Absent
    /\ clock = StartClock
    /\ last = NoRequest
    /\ saved = NoDoc
    /\ calls = 0
    /\ passed = {}
    /\ ticks = 0

\* worker.js:51-91: fetch runs the handler and answers with its result
Respond(op, userId, sessionId, r) ==
    /\ stats' = r.ctx.stats
    /\ storage' = Settle(storage, r.ctx.puts)
    /\ saved' = r.ctx.saved
    /\ last' = [op |-> op, userId |-> userId, sessionId |-> sessionId,
                at |-> clock, status |-> r.status, body |-> r.body,
                swept |-> r.swept, rolled |-> r.rolled,
                writes |-> r.ctx.writes]
    /\ UNCHANGED <<clock, ticks>>

\* GET /increment?userId=..&playerName=..&sessionId=..&gameId=..
RecordEvent(userId, playerName, sessionId, gameId) ==
    /\ calls < MaxEvents
    /\ LET r == IncrementCounters(Context(stats, storage, saved), clock,
                                  userId, playerName, sessionId, gameId, TRUE)
       IN  Respond("RecordEvent", userId, sessionId, r)
    /\ calls' = calls + 1
    /\ passed' = passed \cup {userId}

\* GET /counter
GetSummary ==
    /\ LET r == GetCounterStats(Context(stats, storage, saved), clock, TRUE)
       IN  Respond("GetSummary", Undefined, Undefined, r)
    /\ UNCHANGED <<calls, passed>>

\* GET /stats
GetDetailedReport ==
    /\ LET r == GetDetailedStats(Context(stats, storage, saved), clock, TRUE)
       IN  Respond("GetDetailedReport", Undefined, Undefined, r)
    /\ UNCHANGED <<calls, passed>>

\* GET /heartbeat?sessionId=..&userId=..
Heartbeat(sessionId, userId) ==
    /\ LET r == UpdateHeartbeat(Context(stats, storage, saved), clock,
                                sessionId, userId, TRUE)
       IN  Respond("Heartbeat", userId, sessionId, r)
    /\ UNCHANGED <<calls, passed>>

\* Time passes between two requests; the response of the last one is gone
Tick(d) ==
    /\ ticks < MaxTicks
    /\ clock' = clock + d
    /\ ticks' = ticks + 1
    /\ last' = NoRequest
    /\ UNCHANGED <<stats, storage, saved, calls, passed>>

Next ==
    \/ \E u \in UserIds, s \in SessionIds \cup {Undefined} :
          RecordEvent(u, Profile(u)[1], s, Profile(u)[2])
    \/ GetSummary
    \/ GetDetailedReport
    \/ \E s \in KnownOrFresh(stats.sessions), u \in UserIds : Heartbeat(s, u)
    \/ \E su \in MissingPairs : Heartbeat(su[1], su[2])
    \/ \E d \in Steps : Tick(d)

Spec == Init /\ [][Next]_vars

\* The wall clock is set back between two requests (Date.now() is not
\* monotonic): the instance then sees an earlier instant, possibly an earlier date.
ClockBack(d) ==
    /\ ticks < MaxTicks
    /\ clock' = clock - d
    /\ ticks' = ticks + 1
    /\ last' = NoRequest
    /\ UNCHANGED <<stats, storage, saved, calls, passed>>

\* The clock is set back by a millisecond
BackSteps == {1}

NextSkew ==
    \/ Next
    \/ \E d \in BackSteps : ClockBack(d)

SpecSkew == Init /\ [][NextSkew]_vars

\* The same requests while storage.put rejects: saveStats catches the error
\* (worker.js:394-397) and answers false, which no caller reads
RecordEventPutFails(userId, playerName, sessionId, gameId) ==
    /\ calls < MaxEvents
    /\ LET r == IncrementCounters(Context(stats, storage, saved), clock,
                                  userId, playerName, sessionId, gameId, FALSE)
       IN  Respond("RecordEvent", userId, sessionId, r)
    /\ calls' = calls + 1
    /\ passed' = passed \cup {userId}

GetSummaryPutFails ==
    /\ LET r == GetCounterStats(Context(stats, storage, saved), clock, FALSE)
       IN  Respond("GetSummary", Undefined, Undefined, r)
    /\ UNCHANGED <<calls, passed>>

HeartbeatPutFails(sessionId, userId) ==
    /\ LET r == UpdateHeartbeat(Context(stats, storage, saved), clock,
                                sessionId, userId, FALSE)
       IN  Respond("Heartbeat", userId, sessionId, r)
    /\ UNCHANGED <<calls, passed>>

\* Requests may leave out userId
NextNoUser ==
    \/ Next
    \/ \E s \in SessionIds \cup {Undefined} :
          RecordEvent(Undefined, Undefined, s, Undefined)

SpecNoUser == Init /\ [][NextNoUser]_vars

\* The document holds the state of the instance
InSync == Constructor(storage, StartClock) = stats

\* The host ends the instance and constructs a new one from the document.
\* From a document that holds the state the constructor builds the same state
\* again, so the step is the restart that loses work.
Restart ==
    /\ ~InSync
    /\ stats' = Constructor(storage, clock)
    /\ last' = NoRequest
    /\ UNCHANGED <<storage, clock, saved, calls, passed, ticks>>

\* A storage outage: starting from a document that holds the state, the puts
\* of a request are rejected; and the host may end the instance and construct
\* a new one.  The clients record events, send heartbeats and read /counter.
NextOutage ==
    \/ \E u \in UserIds, s \in SessionIds \cup {Undefined} :
          RecordEvent(u, Profile(u)[1], s, Profile(u)[2])
    \/ GetSummary
    \/ \E s \in KnownOrFresh(stats.sessions), u \in UserIds : Heartbeat(s, u)
    \/ \E d \in Steps : Tick(d)
    \/ /\ InSync
       /\ \/ \E u \in UserIds, s \in SessionIds \cup {Undefined} :
                RecordEventPutFails(u, Profile(u)[1], s, Profile(u)[2])
          \/ GetSummaryPutFails
          \/ \E s \in KnownOrFresh(stats.sessions), u \in UserIds :
                HeartbeatPutFails(s, u)
    \/ Restart

SpecOutage == Init /\ [][NextOutage]_vars

\* this.stats before the constructor's load assigned it (worker.js:7-33)
Uninitialized == [uninitialized |-> TRUE]

\* The gate that delivers requests whatever the state of the load
AcceptsRequestsAlways == TRUE

\* worker.js:7: blockConcurrencyWhile holds every request back until the
\* callback that loads the document has completed
AcceptsRequests == stats # Uninitialized

\* The host ends the instance and constructs a new one, whose load is pending
Evict ==
    /\ stats # Uninitialized
    /\ stats' = Uninitialized
    /\ last' = NoRequest
    /\ UNCHANGED <<storage, clock, saved, calls, passed, ticks>>

\* worker.js:8-32: the callback reads the document and builds the state
Load ==
    /\ stats = Uninitialized
    /\ stats' = Constructor(storage, clock)
    /\ UNCHANGED <<storage, clock, last, saved, calls, passed, ticks>>

\* The stored document lacks one of its collections
Corrupted(doc) == doc # Absent /\ ~(Collections \subseteq DOMAIN doc)

\* While no instance is loaded, the stored document loses a collection
Corrupt(f) ==
    /\ stats = Uninitialized
    /\ storage # Absent
    /\ ~Corrupted(storage)
    /\ storage' = [g \in DOMAIN storage \ {f} |-> storage[g]]
    /\ UNCHANGED <<stats, clock, last, saved, calls, passed, ticks>>

\* worker.js:82-90: a handler that runs before this.stats is assigned throws
\* at its first read of this.stats, and fetch answers 500
ServedUnloaded(op) ==
    /\ last' = [NoRequest EXCEPT !.op = op, !.at = clock, !.status = 500,
                                 !.body = ErrorBody("TypeError")]
    /\ UNCHANGED <<stats, storage, clock, saved, calls, passed, ticks>>

\* Instances come and go: each new one loads the document, which may have
\* lost a collection in between.  The clients record events, read /counter
\* and send heartbeats for the sessions there are.
NextReload ==
    \/ Evict
    \/ Load
    \/ \E f \in Collections : Corrupt(f)
    \/ /\ AcceptsRequests
       /\ IF stats = Uninitialized
          THEN ServedUnloaded("RecordEvent")
          ELSE \E u \in UserIds, s \in SessionIds \cup {Undefined} :
                  RecordEvent(u, Profile(u)[1], s, Profile(u)[2])
    \/ /\ AcceptsRequests
       /\ IF stats = Uninitialized
          THEN ServedUnloaded("GetSummary")
          ELSE GetSummary
    \/ /\ AcceptsRequests
       /\ IF stats = Uninitialized
          THEN ServedUnloaded("Heartbeat")
          ELSE \E s \in Keys(stats.sessions), u \in UserIds : Heartbeat(s, u)
    \/ \E d \in Steps : Tick(d)

SpecReload == Init /\ [][NextReload]_vars

-----------------------------------------------------------------------------
(* Vocabulary of the properties *)

\* The step is a request handled at the instant `clock`
Handled == clock' = clock /\ last'.op # "none"

\* The step ran the expiry sweep (every handler but a heartbeat that lacks an id)
Sweeping ==
    /\ Handled
    /\ ~(last'.op = "Heartbeat" /\ MissingId(last'.sessionId, last'.userId))

\* The step ran the rollover check
RollingOver == Handled /\ last'.op \in {"RecordEvent", "GetSummary", "GetDetailedReport"}

LiveAt(session, now) == now - session.lastHeartbeat <= LIVENESS_WINDOW
Live(sessions, now) == {i \in 1..Len(sessions) : LiveAt(sessions[i].val, now)}
LiveOwned(sessions, userId, now) ==
    {i \in Live(sessions, now) : sessions[i].val.userId = userId}
DayOfDate(dateString) == dateString[2]

\* The online value a response reports
Reports(r) ==
    /\ r.status = 200
    /\ r.op \in {"RecordEvent", "GetSummary", "GetDetailedReport", "Heartbeat"}
ReportedOnline(r) ==
    CASE r.op = "RecordEvent" -> r.body.stats.online
      [] r.op = "GetDetailedReport" -> r.body.summary.online
      [] OTHER -> r.body.online

-----------------------------------------------------------------------------
(* C1 *)

\* C1: total and requestsCount never decrease, and after the k-th RecordEvent
\* call (whatever GetSummary, GetDetailedReport and Heartbeat calls are
\* interleaved) each of them equals k.
C1_CountersCountCalls ==
    [][/\ stats'.total >= stats.total
       /\ stats'.requestsCount >= stats.requestsCount
       /\ stats'.total = calls'
       /\ stats'.requestsCount = calls']_vars

\* The second RecordEvent has been handled, after a heartbeat created a session
C1_Witness ==
    /\ last.op = "RecordEvent"
    /\ calls >= 2
    /\ stats.total = calls
    /\ Len(stats.sessions) >= 1

-----------------------------------------------------------------------------
(* C2 *)

\* The user record of userId, and the session ids its events registered
UserRecord(userId) == MapGet(stats.uniqueUsers, UserKey(userId))

\* The state follows a run of RecordEvent(U1, S1) calls from the zero state,
\* with the clock unmoved (one date, inside the window)
AfterRunOfU1S1 ==
    /\ last.op = "RecordEvent" /\ last.userId = "U1" /\ last.sessionId = "S1"
    /\ ticks = 0
    /\ passed = {"U1"}
    /\ Keys(stats.sessions) \subseteq {"S1"}
    /\ MapHas(stats.uniqueUsers, UserKey("U1"))
    /\ UserRecord("U1").sessions.items = <<"S1">>

\* C2: the n-th of n >= 1 consecutive RecordEvent(U1, S1) calls from the zero
\* state, on one date and inside the liveness window, succeeds and returns
\* total = n, today = n, unique = 1, yourTotal = n, online = 1, and a following
\* GetSummary reports the same total, today, online and unique.
C2_RunOfEventsSucceeds ==
    AfterRunOfU1S1 =>
        /\ last.status = 200
        /\ last.body.success
        /\ last.body.stats = [total |-> calls, today |-> calls, online |-> 1,
                              unique |-> 1, yourTotal |-> calls]
        /\ LET summary == GetCounterStats(Context(stats, storage, saved),
                                          clock, TRUE).body
           IN  /\ summary.total = calls /\ summary.today = calls
               /\ summary.online = 1 /\ summary.unique = 1

-----------------------------------------------------------------------------
(* C3 *)

\* C3: unique, the size of the unique-user index, equals the number of
\* distinct userId values ever passed to RecordEvent.
C3_UniqueCountsUsers == Len(stats.uniqueUsers) = Cardinality(passed)

-----------------------------------------------------------------------------
(* C4 *)

\* C4: a new instance built from the document of the last save is in the
\* state that was saved, in every snapshot field and in the four collections;
\* each day bucket's participants are a Set with the same elements again.
C4_SnapshotRoundTrip ==
    saved # NoDoc =>
        /\ Constructor(storage, clock) = saved
        /\ \A i \in 1..Len(saved.dailyStats) :
              LET loaded == Constructor(storage, clock).dailyStats[i].val.uniqueUsers
              IN  /\ loaded.type = "Set"
                  /\ Items(loaded) = Items(saved.dailyStats[i].val.uniqueUsers)

-----------------------------------------------------------------------------
(* C5 *)

\* C5: the online value returned by an operation called at time t (RecordEvent,
\* GetSummary, GetDetailedReport, and Heartbeat in every outcome, the soft
\* failure for a missing identifier included) equals the number of sessions
\* whose lastHeartbeat is within LIVENESS_WINDOW of t.
C5_OnlineIsLiveCount ==
    Reports(last) =>
        ReportedOnline(last) = Cardinality(Live(stats.sessions, last.at))

-----------------------------------------------------------------------------
(* C6 *)

\* C6: the expiry sweep at time now removes exactly the sessions with
\* now - lastHeartbeat > LIVENESS_WINDOW (such an id is in the set afterwards
\* only if this request registered it anew) and keeps every session with
\* now - lastHeartbeat <= LIVENESS_WINDOW, the one exactly at the boundary
\* included; a GetSummary reports as online the number of sessions kept and
\* leaves total as it was, so after RecordEvent(U1, S1) and LIVENESS_WINDOW + 1
\* without a heartbeat it reports online = 0 and total = 1.
C6_ExpireStale ==
    [][Sweeping =>
        /\ \A i \in 1..Len(stats.sessions) :
              LET e == stats.sessions[i]
              IN  IF clock - e.val.lastHeartbeat > LIVENESS_WINDOW
                  THEN \/ ~MapHas(stats'.sessions, e.key)
                       \/ MapGet(stats'.sessions, e.key).created = clock
                  ELSE MapHas(stats'.sessions, e.key)
        /\ last'.op = "GetSummary" =>
              /\ last'.body.online = Cardinality(Live(stats.sessions, clock))
              /\ last'.body.online = Len(stats'.sessions)
              /\ last'.body.total = stats.total
              /\ stats'.total = stats.total]_vars

\* A GetSummary has swept one session, a millisecond past the window, and
\* kept another that is exactly at the boundary
C6_Witness ==
    /\ last.op = "GetSummary"
    /\ last.swept = 1
    /\ last.body.online = 1
    /\ last.body.total >= 1
    /\ \E i \in 1..Len(stats.sessions) :
          last.at - stats.sessions[i].val.lastHeartbeat = LIVENESS_WINDOW

-----------------------------------------------------------------------------
(* C7 *)

DateAdvanced == DayOf(clock) > DayOfDate(stats.lastReset)

\* C7 as stated: once the date has advanced past lastReset, the next
\* operation of any kind, Heartbeat included, applies the reset: lastReset
\* becomes the new date and today and peakToday restart from 0 (a RecordEvent
\* then counts its own event).
C7_AnyOperationRollsOver ==
    [][(Handled /\ DateAdvanced) =>
        /\ stats'.lastReset = ToDateString(clock)
        /\ stats'.today = (IF last'.op = "RecordEvent" THEN 1 ELSE 0)
        /\ stats'.peakToday = stats'.today]_vars

\* C7 as amended: the next RecordEvent, GetSummary or GetDetailedReport
\* applies the reset; a Heartbeat applies none and leaves today, peakToday and
\* lastReset as they are; and the reset happens once per date change: no
\* operation handled on the date lastReset lowers today or peakToday.
C7_RolloverOncePerDate ==
    [][Handled =>
        /\ (RollingOver /\ DateAdvanced) =>
              /\ stats'.lastReset = ToDateString(clock)
              /\ stats'.today = (IF last'.op = "RecordEvent" THEN 1 ELSE 0)
              /\ stats'.peakToday = stats'.today
        /\ last'.op = "Heartbeat" =>
              /\ stats'.lastReset = stats.lastReset
              /\ stats'.today = stats.today
              /\ stats'.peakToday = stats.peakToday
        /\ stats.lastReset = ToDateString(clock) =>
              /\ stats'.lastReset = stats.lastReset
              /\ stats'.today >= stats.today
              /\ stats'.peakToday >= stats.peakToday]_vars

\* On the new date a RecordEvent has applied the reset and counted itself,
\* and a later GetSummary has reset nothing
C7_Witness ==
    /\ last.op = "GetSummary"
    /\ ~last.rolled
    /\ DayOf(last.at) = DayOf(StartClock) + 1
    /\ stats.lastReset = ToDateString(last.at)
    /\ stats.today = 1
    /\ stats.total = 2

-----------------------------------------------------------------------------
(* C8 *)

\* C8: today and peakToday are reset exactly when the date advances past
\* lastReset: an operation handled on a date that is not later than lastReset
\* (the same date, or an earlier one) resets nothing.
C8_NoResetUnlessDateAdvanced ==
    [][(Handled /\ ~DateAdvanced) =>
        /\ stats'.lastReset = stats.lastReset
        /\ stats'.today >= stats.today
        /\ stats'.peakToday >= stats.peakToday]_vars

-----------------------------------------------------------------------------
(* C9 *)

\* C9: a Heartbeat(sessionId, userId) whose sessionId is not in the session
\* set, made while userId owns a live session, refreshes the lastHeartbeat of
\* a session that user already owns, adds no record for the new sessionId,
\* leaves the number of live sessions as it was and returns success:true.
C9_SessionDedup ==
    [][(/\ Handled
        /\ last'.op = "Heartbeat"
        /\ ~MissingId(last'.sessionId, last'.userId)
        /\ ~MapHas(stats.sessions, last'.sessionId)
        /\ LiveOwned(stats.sessions, last'.userId, clock) # {}) =>
        /\ last'.body.success
        /\ ~MapHas(stats'.sessions, last'.sessionId)
        /\ Len(stats'.sessions) = Cardinality(Live(stats.sessions, clock))
        /\ \E i \in LiveOwned(stats.sessions, last'.userId, clock) :
              LET e == stats.sessions[i]
              IN  /\ MapHas(stats'.sessions, e.key)
                  /\ MapGet(stats'.sessions, e.key) =
                        [e.val EXCEPT !.lastHeartbeat = clock,
                                      !.lastActivity = clock]]_vars

\* A heartbeat under an unknown session id has refreshed, a millisecond
\* later, the session its user owned
C9_Witness ==
    /\ last.op = "Heartbeat"
    /\ last.body.success
    /\ ~MapHas(stats.sessions, last.sessionId)
    /\ Len(stats.sessions) = 1
    /\ stats.sessions[1].val.userId = last.userId
    /\ stats.sessions[1].val.lastHeartbeat = last.at
    /\ stats.sessions[1].val.created < last.at

-----------------------------------------------------------------------------
(* C10 *)

-----------------------------------------------------------------------------
(* C11 *)

\* The step is a heartbeat that names a session of the set owned by another user
ForeignHeartbeat ==
    /\ Handled
    /\ last'.op = "Heartbeat"
    /\ ~MissingId(last'.sessionId, last'.userId)
    /\ MapHas(stats.sessions, last'.sessionId)
    /\ MapGet(stats.sessions, last'.sessionId).userId # last'.userId

\* C11: a Heartbeat(sessionId, userId) for a sessionId that is in the session
\* set and belongs to a different userId is rejected: it returns success:false
\* and does not refresh the session's lastHeartbeat.
C11_ForeignHeartbeatRejected ==
    [][ForeignHeartbeat =>
        /\ ~last'.body.success
        /\ MapHas(stats'.sessions, last'.sessionId) =>
              MapGet(stats'.sessions, last'.sessionId).lastHeartbeat =
                 MapGet(stats.sessions, last'.sessionId).lastHeartbeat]_vars

-----------------------------------------------------------------------------
(* C12 *)

\* The step is a heartbeat with both ids, for a session id that is not in the
\* set, of a user who owns no live session
FirstHeartbeat ==
    /\ Handled
    /\ last'.op = "Heartbeat"
    /\ ~MissingId(last'.sessionId, last'.userId)
    /\ ~MapHas(stats.sessions, last'.sessionId)
    /\ LiveOwned(stats.sessions, last'.userId, clock) = {}

\* C12: a Heartbeat(sessionId, userId) with both ids, when no session has that
\* sessionId and userId owns no live session (with or without a RecordEvent
\* before it), creates the session record, makes online the number of live
\* sessions plus one (the stored online plus one when no session is stale),
\* leaves peakOnline at least the new online and returns success:true with the
\* new online.
C12_HeartbeatCreatesSession ==
    [][FirstHeartbeat =>
        /\ MapHas(stats'.sessions, last'.sessionId)
        /\ MapGet(stats'.sessions, last'.sessionId) =
              HeartbeatSession(last'.userId, clock)
        /\ Len(stats'.sessions) = Cardinality(Live(stats.sessions, clock)) + 1
        /\ stats'.online = Len(stats'.sessions)
        /\ (Cardinality(Live(stats.sessions, clock)) = Len(stats.sessions)) =>
              stats'.online = stats.online + 1
        /\ stats'.peakOnline >= stats'.online
        /\ last'.body.success
        /\ last'.body.online = stats'.online]_vars

\* With no RecordEvent before them, the heartbeats of two users have created
\* one session each
C12_Witness ==
    /\ calls = 0
    /\ last.op = "Heartbeat"
    /\ last.body.success
    /\ last.body.message = "Nueva sesion creada"
    /\ last.body.online = 2
    /\ Len(stats.sessions) = 2
    /\ stats.peakOnline = 2

-----------------------------------------------------------------------------
(* C13 *)

\* C13: when the durable write of a RecordEvent or of a mutating Heartbeat
\* fails, the operation reports the failure: a success:true result is never
\* returned for a state that the document does not hold.
C13_SuccessMeansPersisted ==
    (/\ last.op \in {"RecordEvent", "Heartbeat"}
     /\ last.status = 200
     /\ last.body.success) => InSync

-----------------------------------------------------------------------------
(* C14 *)

\* C14: a RecordEvent without userId is a validation failure: it answers a
\* soft success:false without throwing, counts no event, and creates neither
\* a user record nor a session.
C14_EventWithoutUserRejected ==
    [][(Handled /\ last'.op = "RecordEvent" /\ last'.userId = Undefined) =>
        /\ last'.status = 200
        /\ ~last'.body.success
        /\ stats'.total = stats.total
        /\ stats'.today <= stats.today
        /\ stats'.requestsCount = stats.requestsCount
        /\ Keys(stats'.uniqueUsers) = Keys(stats.uniqueUsers)
        /\ Keys(stats'.sessions) \subseteq Keys(stats.sessions)]_vars

-----------------------------------------------------------------------------
(* C15 *)

\* C15: a Heartbeat whose sessionId or userId is missing returns
\* {success:false, online} without throwing, and creates, refreshes or removes
\* no session record.
C15_HeartbeatWithoutIdSoftFails ==
    [][(/\ Handled
        /\ last'.op = "Heartbeat"
        /\ (last'.sessionId = Undefined \/ last'.userId = Undefined)) =>
        /\ last'.status = 200
        /\ ~last'.body.success
        /\ last'.body.online = stats.online
        /\ stats'.sessions = stats.sessions
        /\ stats' = stats
        /\ storage' = storage]_vars

\* A heartbeat without sessionId has been answered with success:false while
\* the set holds a session past the window, which it did not remove
C15_Witness ==
    /\ last.op = "Heartbeat"
    /\ last.sessionId = Undefined
    /\ last.status = 200
    /\ ~last.body.success
    /\ \E i \in 1..Len(stats.sessions) :
          last.at - stats.sessions[i].val.lastHeartbeat > LIVENESS_WINDOW

-----------------------------------------------------------------------------
(* C16 *)

\* C16: at the end of every operation the stored online field equals the
\* number of records in the session set, and so it does in every persisted
\* snapshot.
C16_OnlineIsSessionCount ==
    /\ stats.online = Len(stats.sessions)
    /\ storage # Absent => storage.online = Len(ObjectEntries(storage.sessions))

\* A GetSummary has swept one of two sessions: online fell from 2 to 1, in
\* the instance and in the document
C16_Witness ==
    /\ last.op = "GetSummary"
    /\ last.swept = 1
    /\ stats.peakOnline = 2
    /\ stats.online = 1
    /\ Len(stats.sessions) = 1
    /\ storage # Absent
    /\ storage.online = 1

-----------------------------------------------------------------------------
(* C17 *)

\* C17: peakOnline is at least every value online has taken: it never
\* decreases and is at least the online of every state; peakToday is at least
\* every value today has taken since the last daily reset: it is at least the
\* today of every state and decreases only where lastReset changes.
C17_PeaksAreHighWaterMarks ==
    [][/\ stats.peakOnline >= stats.online
       /\ stats.peakToday >= stats.today
       /\ stats'.peakOnline >= stats.peakOnline
       /\ stats'.peakOnline >= stats'.online
       /\ stats'.peakToday >= stats'.today
       /\ stats'.lastReset = stats.lastReset =>
             stats'.peakToday >= stats.peakToday]_vars

\* On the new date today restarted and is below the peak of all time, while
\* online fell below its peak
C17_Witness ==
    /\ last.op = "RecordEvent"
    /\ last.rolled
    /\ stats.today = 1
    /\ stats.peakToday = 1
    /\ stats.total = 2
    /\ stats.peakOnline = 2
    /\ stats.online = 1

-----------------------------------------------------------------------------
(* C18 *)

\* C18: after every operation that changed the state of the aggregator
\* (RecordEvent, a mutating Heartbeat, an expiry sweep or a daily rollover
\* triggered by any operation) the durable document equals the in-memory
\* state: a new instance built from the document is in that state.
C18_DurableFlush == Constructor(storage, StartClock) = stats

-----------------------------------------------------------------------------
(* C19 *)

\* The step ends the instance and constructs a new one
Restarting ==
    /\ last' = NoRequest
    /\ UNCHANGED <<storage, clock, ticks>>

\* C19: an instance constructed after a termination is in the state of the
\* last document written; every RecordEvent that returned success is counted
\* in the total a new instance would load (the total of the document, which
\* never decreases), so that only the work after the last write is lost.
C19_CrashRecovery ==
    [][/\ Restarting => stats' = Constructor(storage, clock)
       /\ (Handled /\ last'.op = "RecordEvent" /\ last'.status = 200
              /\ last'.body.success) =>
             /\ storage' # Absent
             /\ Constructor(storage', clock).total = stats'.total
       /\ storage # Absent =>
             /\ storage' # Absent
             /\ storage'.total >= storage.total]_vars

-----------------------------------------------------------------------------
(* C20 *)

\* C20: GetSummary and GetDetailedReport record no event: apart from expiring
\* the stale sessions and applying the daily rollover they leave total,
\* requestsCount, the unique-user index, the hour buckets, the day buckets,
\* peakOnline and every remaining session (its lastHeartbeat included) as
\* they were.
C20_QueriesRecordNothing ==
    [][(Handled /\ last'.op \in {"GetSummary", "GetDetailedReport"}) =>
        /\ stats'.total = stats.total
        /\ stats'.requestsCount = stats.requestsCount
        /\ stats'.uniqueUsers = stats.uniqueUsers
        /\ stats'.hourlyStats = stats.hourlyStats
        /\ stats'.dailyStats = stats.dailyStats
        /\ stats'.peakOnline = stats.peakOnline
        /\ \A i \in 1..Len(stats'.sessions) :
              LET e == stats'.sessions[i]
              IN  /\ MapHas(stats.sessions, e.key)
                  /\ MapGet(stats.sessions, e.key) = e.val
        /\ calls' = calls]_vars

\* A GetDetailedReport on a new date has swept one session, kept another and
\* applied the rollover, with an event counted before it
C20_Witness ==
    /\ last.op = "GetDetailedReport"
    /\ last.swept = 1
    /\ last.rolled
    /\ Len(stats.sessions) = 1
    /\ stats.total >= 1
    /\ stats.today = 0
    /\ Len(stats.dailyStats) = 1

-----------------------------------------------------------------------------
(* C21 *)

\* The count of the bucket under key k, 0 when there is none
CountIn(buckets, k) == IF MapHas(buckets, k) THEN MapGet(buckets, k).count ELSE 0

RECURSIVE SumCounts(_)
SumCounts(buckets) ==
    IF buckets = <<>> THEN 0 ELSE Head(buckets).val.count + SumCounts(Tail(buckets))

\* The hour that lies n hours before the hour of the clock
HoursBefore(n) == HourKeyOf(clock - n * MsPerHour)

\* C21: every RecordEvent call adds one to the bucket of the hour of the call
\* and to no other, no other operation changes a bucket, so that a bucket's
\* count is the number of RecordEvent calls made in its hour (the counts add
\* up to the number of calls); and GetDetailedReport returns 12 hourly
\* entries, oldest first, the j-th for the hour 12 - j hours before now's
\* hour, with that hour's count, 0 for an hour with no event.
C21_HourlySeries ==
    [][Handled =>
        /\ \A k \in Keys(stats.hourlyStats) \cup Keys(stats'.hourlyStats) :
              CountIn(stats'.hourlyStats, k) =
                 CountIn(stats.hourlyStats, k) +
                    (IF last'.op = "RecordEvent" /\ k = HourKeyOf(clock)
                     THEN 1 ELSE 0)
        /\ SumCounts(stats'.hourlyStats) = calls'
        /\ last'.op = "GetDetailedReport" =>
              /\ Len(last'.body.hourly) = 12
              /\ \A j \in 1..12 :
                    /\ last'.body.hourly[j].date = HoursBefore(12 - j)
                    /\ last'.body.hourly[j].hour = <<HoursBefore(12 - j)[3], ":00">>
                    /\ last'.body.hourly[j].count =
                          CountIn(stats.hourlyStats, HoursBefore(12 - j))]_vars

\* A report of two events made in two hours: the entries of the last two
\* hours count one event each, the ten entries before them none
C21_Witness ==
    /\ last.op = "GetDetailedReport"
    /\ calls = 2
    /\ Len(last.body.hourly) = 12
    /\ last.body.hourly[12].count = 1
    /\ last.body.hourly[11].count = 1
    /\ \A j \in 1..10 : last.body.hourly[j].count = 0

-----------------------------------------------------------------------------
(* C22 *)

\* The participants of the bucket of the date k, none when there is no bucket
ParticipantsOn(buckets, k) ==
    IF MapHas(buckets, k) THEN Items(MapGet(buckets, k).uniqueUsers) ELSE {}

\* C22: GetDetailedReport returns 7 daily entries, oldest first, the j-th for
\* the date 7 - j days before now's date, with the count of that date's
\* events and, as unique, the number of distinct userIds that recorded an
\* event on that date (0 for a date with no event), also after a save.
C22_DailySeries ==
    last.op = "GetDetailedReport" =>
        /\ Len(last.body.daily) = 7
        /\ \A j \in 1..7 :
              LET entry == last.body.daily[j]
                  k == ToDateString(last.at - (7 - j) * MsPerDay)
              IN  /\ entry.count = CountIn(stats.dailyStats, k)
                  /\ "unique" \in DOMAIN entry
                  /\ entry.unique = Cardinality(ParticipantsOn(stats.dailyStats, k))

-----------------------------------------------------------------------------
(* C23 *)

\* The step is the load of a new instance
Loading == stats = Uninitialized /\ stats' # Uninitialized

\* C23: an instance constructed over a corrupted document (one that lacks a
\* collection) starts from the zero state.
C23_CorruptDocumentStartsFromZero ==
    [][(Loading /\ Corrupted(storage)) => stats' = ZeroStats(clock)]_vars

-----------------------------------------------------------------------------
(* C24 *)

-----------------------------------------------------------------------------
(* C25 *)

\* The state the expiry sweep of a handler at the clock leaves
AfterSweep ==
    [stats EXCEPT !.sessions = LiveEntries(stats.sessions, clock),
                  !.online = Len(LiveEntries(stats.sessions, clock))]

\* C25: the daily rollover changes only today, peakToday and lastReset.  A
\* query that rolls over leaves the state its sweep leaves but for today = 0,
\* peakToday = 0 and lastReset = the date of the clock, and /counter reports
\* today 0 and the total of before; a RecordEvent that rolls over counts its
\* event on top: total and requestsCount one more, today 1, peakOnline not
\* lower, no user taken from the index and every bucket of another day or
\* hour as before.
C25_RolloverFrame ==
    [][(RollingOver /\ last'.rolled) =>
          /\ stats'.lastReset = ToDateString(clock)
          /\ last'.op \in {"GetSummary", "GetDetailedReport"} =>
                /\ stats' = [AfterSweep EXCEPT !.today = 0, !.peakToday = 0,
                                               !.lastReset = ToDateString(clock)]
                /\ last'.op = "GetSummary" =>
                      /\ last'.body.today = 0
                      /\ last'.body.peakToday = 0
                      /\ last'.body.total = stats.total
                      /\ last'.body.peakOnline = stats.peakOnline
                      /\ last'.body.unique = Len(stats.uniqueUsers)
          /\ last'.op = "RecordEvent" =>
                /\ stats'.total = stats.total + 1
                /\ stats'.requestsCount = stats.requestsCount + 1
                /\ stats'.today = 1
                /\ stats'.peakToday = 1
                /\ stats'.peakOnline >= stats.peakOnline
                /\ Keys(stats.uniqueUsers) \subseteq Keys(stats'.uniqueUsers)
                /\ \A k \in Keys(stats.dailyStats) :
                      k # ToDateString(clock) =>
                          /\ MapHas(stats'.dailyStats, k)
                          /\ MapGet(stats'.dailyStats, k) = MapGet(stats.dailyStats, k)
                /\ \A k \in Keys(stats.hourlyStats) :
                      k # HourKeyOf(clock) =>
                          /\ MapHas(stats'.hourlyStats, k)
                          /\ MapGet(stats'.hourlyStats, k) = MapGet(stats.hourlyStats, k)]_vars

\* /counter on the day after two events: today is 0 again, the total is 2
C25_Witness ==
    /\ last.op = "GetSummary"
    /\ last.rolled
    /\ last.body.today = 0
    /\ last.body.total = 2
    /\ stats.requestsCount = 2
    /\ Len(stats.dailyStats) = 1

-----------------------------------------------------------------------------
(* C26 *)

\* C26: every RecordEvent leaves the bucket of the clock's date with a count
\* one higher than before (1 for a new bucket) and with the userId among its
\* participants ({userId} alone for a new bucket), whether or not the bucket
\* existed and whatever was saved in between.
C26_DayBucketCountsEveryEvent ==
    [][(Handled /\ last'.op = "RecordEvent") =>
          LET k == ToDateString(clock)
          IN  /\ MapHas(stats'.dailyStats, k)
              /\ CountIn(stats'.dailyStats, k) = CountIn(stats.dailyStats, k) + 1
              /\ last'.userId \in ParticipantsOn(stats'.dailyStats, k)
              /\ ~MapHas(stats.dailyStats, k) =>
                    ParticipantsOn(stats'.dailyStats, k) = {last'.userId}]_vars

-----------------------------------------------------------------------------
(* C27 *)

\* C27: every RecordEvent with a sessionId leaves the record of that
\* sessionId with the userId and gameId of the call and with created and
\* lastHeartbeat at the clock, whoever owned the sessionId before; online is
\* then the number of session records and peakOnline is not below it.  A
\* RecordEvent without sessionId adds no session record.
C27_EventUpsertsSession ==
    [][(Handled /\ last'.op = "RecordEvent") =>
          IF last'.sessionId # Undefined
          THEN /\ MapHas(stats'.sessions, last'.sessionId)
               /\ LET session == MapGet(stats'.sessions, last'.sessionId)
                  IN  /\ session.userId = last'.userId
                      /\ session.gameId = Profile(last'.userId)[2]
                      /\ session.created = clock
                      /\ session.lastHeartbeat = clock
               /\ stats'.online = Len(stats'.sessions)
               /\ stats'.peakOnline >= stats'.online
          ELSE Keys(stats'.sessions) \subseteq Keys(stats.sessions)]_vars

-----------------------------------------------------------------------------
(* C28 *)

\* C28: a RecordEvent for a userId without record creates the record with
\* totalExecutions 1 and firstSeen = lastSeen = the clock; one for a userId
\* with a record adds 1 to totalExecutions, sets lastSeen to the clock and
\* keeps firstSeen; the records of the other users stay as they are, and the
\* yourTotal returned is the totalExecutions of the record, one for every
\* RecordEvent made with the userId.
C28_EventUpsertsUser ==
    [][(Handled /\ last'.op = "RecordEvent") =>
          LET userKey == UserKey(last'.userId)
          IN  /\ MapHas(stats'.uniqueUsers, userKey)
              /\ LET user == MapGet(stats'.uniqueUsers, userKey)
                 IN  /\ user.lastSeen = ToISOString(clock)
                     /\ IF MapHas(stats.uniqueUsers, userKey)
                        THEN /\ user.totalExecutions =
                                   MapGet(stats.uniqueUsers, userKey).totalExecutions + 1
                             /\ user.firstSeen =
                                   MapGet(stats.uniqueUsers, userKey).firstSeen
                        ELSE /\ user.totalExecutions = 1
                             /\ user.firstSeen = ToISOString(clock)
                     /\ "stats" \in DOMAIN last'.body
                     /\ last'.body.stats.yourTotal = user.totalExecutions
              /\ \A k \in Keys(stats.uniqueUsers) \ {userKey} :
                    /\ MapHas(stats'.uniqueUsers, k)
                    /\ MapGet(stats'.uniqueUsers, k) = MapGet(stats.uniqueUsers, k)]_vars

-----------------------------------------------------------------------------
(* C29 *)

\* C29: a Heartbeat that answers success:false has put nothing and leaves the
\* document and the state as they were; one that answers success:true has
\* put at least once, and the document it leaves holds the sessions of the
\* instance, among them the one it refreshed or created at the clock.
C29_HeartbeatWritesItsMutation ==
    [][(Handled /\ last'.op = "Heartbeat") =>
          IF last'.body.success
          THEN /\ last'.writes >= 1
               /\ storage' # Absent
               /\ storage'.sessions = ObjectFromEntries(stats'.sessions)
               /\ \E i \in 1..Len(stats'.sessions) :
                     stats'.sessions[i].val.lastHeartbeat = clock
          ELSE /\ last'.writes = 0
               /\ storage' = storage
               /\ stats' = stats]_vars

-----------------------------------------------------------------------------
(* C30 *)

\* C30: when a RecordEvent or a Heartbeat answers success:true, its put has
\* been made and the document is the snapshot of the state the operation
\* left, the effects of the operation included.
C30_SuccessAfterWrite ==
    [][(/\ Handled
        /\ last'.op \in {"RecordEvent", "Heartbeat"}
        /\ last'.status = 200
        /\ last'.body.success) =>
          /\ last'.writes >= 1
          /\ storage' = ToSave(stats', stats'.dailyStats)]_vars

-----------------------------------------------------------------------------
(* C31 *)

\* C31: saveStats leaves the state of the instance as it found it.  A
\* RecordEvent or a Heartbeat that answers after its save ends in the state
\* that the save was entered with, every day bucket's participants being the
\* same Set with the same elements.
C31_SaveLeavesStateAlone ==
    [][(/\ Handled
        /\ last'.op \in {"RecordEvent", "Heartbeat"}
        /\ last'.status = 200
        /\ last'.writes >= 1) =>
          /\ stats' = saved'
          /\ \A i \in 1..Len(stats'.dailyStats) :
                stats'.dailyStats[i].val.uniqueUsers.type = "Set"]_vars

-----------------------------------------------------------------------------
(* C32 *)

\* C32: a RecordEvent that is answered with the 'Error interno' document has
\* counted nothing: total, today, requestsCount, peakToday, the hour and day
\* buckets and the user index are as before the call, and the sessions are
\* those the sweep of the call left.
C32_FailedEventCountsNothing ==
    [][(Handled /\ last'.op = "RecordEvent" /\ last'.status = 500) =>
          /\ stats'.total = stats.total
          /\ stats'.today = stats.today
          /\ stats'.requestsCount = stats.requestsCount
          /\ stats'.peakToday = stats.peakToday
          /\ stats'.hourlyStats = stats.hourlyStats
          /\ stats'.dailyStats = stats.dailyStats
          /\ stats'.uniqueUsers = stats.uniqueUsers
          /\ stats'.sessions = AfterSweep.sessions]_vars

-----------------------------------------------------------------------------
(* C33 *)

RECURSIVE SumExecutions(_)
SumExecutions(users) ==
    IF users = <<>> THEN 0
    ELSE Head(users).val.totalExecutions + SumExecutions(Tail(users))

\* C33: the totalExecutions of all user records add up to total.
C33_ExecutionsSumToTotal == SumExecutions(stats.uniqueUsers) = stats.total

-----------------------------------------------------------------------------
(* C34 *)

\* Every bucket of before is still there, with a count that is not lower
BucketsKept(before, after) ==
    \A k \in Keys(before) :
        /\ MapHas(after, k)
        /\ MapGet(after, k).count >= MapGet(before, k).count

\* C34: after every step the counts of the hour buckets add up to total, and
\* so do the counts of the day buckets; no step removes a bucket or lowers
\* the count of one.
C34_BucketsSumToTotal ==
    [][/\ SumCounts(stats'.hourlyStats) = stats'.total
       /\ SumCounts(stats'.dailyStats) = stats'.total
       /\ BucketsKept(stats.hourlyStats, stats'.hourlyStats)
       /\ BucketsKept(stats.dailyStats, stats'.dailyStats)]_vars

\* Two events on two dates, the second just recorded: two day buckets and two
\* hour buckets of count 1, total 2
C34_Witness ==
    /\ last.op = "RecordEvent"
    /\ stats.total = 2
    /\ Len(stats.dailyStats) = 2
    /\ Len(stats.hourlyStats) = 2

-----------------------------------------------------------------------------
(* C35 *)

\* C35: with a clock that does not go back, every RecordEvent, GetSummary and
\* GetDetailedReport leaves today equal to the count of the day bucket of
\* lastReset (0 when there is no such bucket), and today at most total.
C35_TodayIsBucketOfLastReset ==
    [][RollingOver =>
          /\ stats'.today = CountIn(stats'.dailyStats, stats'.lastReset)
          /\ stats'.today <= stats'.total]_vars

\* The second event falls on the date after the first: the rollover restarts
\* today, and the event is the one of the new date's bucket
C35_Witness ==
    /\ last.op = "RecordEvent"
    /\ last.rolled
    /\ stats.total = 2
    /\ stats.today = 1
    /\ CountIn(stats.dailyStats, stats.lastReset) = 1

-----------------------------------------------------------------------------
(* C36 *)

-----------------------------------------------------------------------------
(* C37 *)

\* C37: a Heartbeat, whatever it answers, leaves total, today, requestsCount,
\* peakToday, lastReset, the user records and the hour and day buckets as
\* they were: it changes nothing but the sessions, online and peakOnline.
C37_HeartbeatCountsNothing ==
    [][(Handled /\ last'.op = "Heartbeat") =>
          stats' = [stats EXCEPT !.sessions = stats'.sessions,
                                 !.online = stats'.online,
                                 !.peakOnline = stats'.peakOnline]]_vars

\* A heartbeat after an event created a session: the counters, the user
\* record and the buckets of the event are there, and so is the new session
C37_Witness ==
    /\ last.op = "Heartbeat"
    /\ last.body.success
    /\ last.body.message = "Nueva sesion creada"
    /\ stats.total = 1
    /\ stats.requestsCount = 1
    /\ Len(stats.uniqueUsers) = 1
    /\ Len(stats.dailyStats) = 1
    /\ Len(stats.sessions) = 1

-----------------------------------------------------------------------------
(* C38 *)

\* C38: a session whose last heartbeat is no older than LIVENESS_WINDOW at the
\* time of a request is not removed by that request, whoever makes it; the
\* Heartbeat of its owner with its sessionId sets lastHeartbeat to the clock
\* and keeps the owner and the creation time, so that heartbeats at intervals
\* of at most LIVENESS_WINDOW keep the session for good; and a query made
\* meanwhile reports an online that counts it.
C38_KeepAlive ==
    [][Handled =>
          \A i \in 1..Len(stats.sessions) :
              LET e == stats.sessions[i]
              IN  clock - e.val.lastHeartbeat <= LIVENESS_WINDOW =>
                    /\ MapHas(stats'.sessions, e.key)
                    /\ (/\ last'.op = "Heartbeat"
                        /\ last'.sessionId = e.key
                        /\ last'.userId = e.val.userId) =>
                          /\ last'.body.success
                          /\ MapGet(stats'.sessions, e.key).lastHeartbeat = clock
                          /\ MapGet(stats'.sessions, e.key).created = e.val.created
                          /\ MapGet(stats'.sessions, e.key).userId = e.val.userId
                    /\ last'.op \in {"GetSummary", "GetDetailedReport"} =>
                          /\ ReportedOnline(last') = Len(stats'.sessions)
                          /\ ReportedOnline(last') >= 1]_vars

\* A session that a RecordEvent created, refreshed by a heartbeat after
\* LIVENESS_WINDOW, is reported online by /counter after LIVENESS_WINDOW more
C38_Witness ==
    /\ last.op = "GetSummary"
    /\ clock = StartClock + 2 * LIVENESS_WINDOW
    /\ last.body.online = 1
    /\ \E i \in 1..Len(stats.sessions) :
          /\ stats.sessions[i].val.gameId # Undefined
          /\ stats.sessions[i].val.created = StartClock
          /\ stats.sessions[i].val.lastHeartbeat = StartClock + LIVENESS_WINDOW

-----------------------------------------------------------------------------
(* C39 *)

\* The sessionIds of the user's record, none when there is no record
SessionsOf(users, userKey) ==
    IF MapHas(users, userKey) THEN Items(MapGet(users, userKey).sessions) ELSE {}

\* C39: every RecordEvent succeeds and leaves the user's record with a
\* sessions list that holds no sessionId twice and holds exactly the
\* sessionIds the user has passed: those of before and the one of this call,
\* nothing when the call passed none.
C39_UserSessionsList ==
    [][(Handled /\ last'.op = "RecordEvent") =>
          LET userKey == UserKey(last'.userId)
              passedNow == IF last'.sessionId # Undefined
                           THEN {last'.sessionId} ELSE {}
          IN  /\ last'.status = 200
              /\ MapHas(stats'.uniqueUsers, userKey)
              /\ SessionsOf(stats'.uniqueUsers, userKey) =
                    SessionsOf(stats.uniqueUsers, userKey) \cup passedNow
              /\ Len(MapGet(stats'.uniqueUsers, userKey).sessions.items) =
                    Cardinality(SessionsOf(stats'.uniqueUsers, userKey))]_vars

=============================================================================
